---------------------------- MODULE Spec2Model ----------------------------
(*************************************************************************)
(* Ladder-graph planner of descartes_planner: the PlanningGraph facade   *)
(* (planning_graph.cpp) over the LadderGraph container, the edge builder *)
(* and the layered shortest-path search.                                 *)
(*                                                                       *)
(* Rung and vertex indices are the 0-based std::size_t values of the     *)
(* C++ code; a TLA+ sequence position is the index plus one.             *)
(*************************************************************************)
EXTENDS Integers, Sequences, FiniteSets, TLC

(*************************************************************************)
(* Bounds and program constants                                          *)
(*************************************************************************)
\* largest number of rungs a graph is grown to, and of waypoints of one
\* insertGraph call
MaxRungs == 3

\* largest number of facade calls made on one planner
MaxCalls == 3

\* getDOF() of the robot model the graph is constructed with
DOF == 2

\* the reserved all-zero waypoint id, TrajectoryPt::ID::is_nil()
Nil == 0

\* std::size_t arithmetic wraps; 2^30 stands for 2^64 (the model checker's
\* integers are 32 bits wide), so that 0 - 1 is a huge index out of any graph
SizeMod == 1073741824

\* std::numeric_limits<double>::infinity()
Infinity == 1000000

Ids == {1, 2, 3}

(*************************************************************************)
(* Waypoints and the kinematics oracle                                   *)
(*************************************************************************)
Unspecified == [specified |-> FALSE, upper |-> 0]

Within(u) == [specified |-> TRUE, upper |-> u]

\* The waypoints the caller may hand to the facade: id, timing constraint and
\* the joint poses the oracle enumerates for it (none: IK failure).
Points ==
  { [id |-> 1, timing |-> Unspecified, poses |-> << <<0, 0>>, <<2, 2>> >>],
    [id |-> 2, timing |-> Within(1),   poses |-> << <<0, 1>>, <<2, 1>> >>],
    [id |-> 2, timing |-> Unspecified, poses |-> << >>],
    [id |-> 3, timing |-> Within(1),   poses |-> << <<4, 4>> >>] }

\* TrajectoryPt::getJointPoses
getJointPoses(point) == point.poses

Abs(x) == IF x < 0 THEN -x ELSE x

\* RobotModel::isValidMove: every joint moves at most one unit per unit time
isValidMove(from_joints, to_joints, dt) ==
  \A k \in 1..DOF : Abs(from_joints[k] - to_joints[k]) <= dt

\* the cost functions a planner may be constructed with
CostFunctions == {"none", "user"}

\* a registered user cost function: twice the travel of the first joint
UserCost(a, b) == 2 * Abs(a[1] - b[1])

(*************************************************************************)
(* LadderGraph                                                           *)
(*************************************************************************)
EmptyRung == [id |-> Nil, timing |-> Unspecified, data |-> << >>, edges |-> << >>]

size(g) == Len(g)

InRange(g, i) == i >= 0 /\ i < Len(g)

getRung(g, i) == g[i + 1]

isFirst(i) == i = 0

isLast(g, i) == (i + 1) % SizeMod = size(g)

RECURSIVE Flatten(_)
Flatten(sols) == IF sols = << >> THEN << >> ELSE Head(sols) \o Flatten(Tail(sols))

\* number of vertices of rung i
rungSize(g, i) == Len(getRung(g, i).data) \div DOF

\* joint configuration of vertex v of rung i
vertex(g, i, v) == SubSeq(getRung(g, i).data, v * DOF + 1, v * DOF + DOF)

\* edge list out of vertex v of rung i; a cleared edge structure has none
edgesOutOf(g, i, v) ==
  IF v + 1 \in DOMAIN getRung(g, i).edges THEN getRung(g, i).edges[v + 1] ELSE << >>

allocate(n) == [i \in 1..n |-> EmptyRung]

assignRung(g, i, id, timing, sols) ==
  [g EXCEPT ![i + 1] = [@ EXCEPT !.id = id, !.timing = timing, !.data = Flatten(sols)]]

clearVertices(g, i) == [g EXCEPT ![i + 1].data = << >>]

clearEdges(g, i) == [g EXCEPT ![i + 1].edges = << >>]

assignEdges(g, i, edges) == [g EXCEPT ![i + 1].edges = edges]

\* insert an empty rung at position i; the edge structure out of rung i-1,
\* which addressed the rung that moved to i+1, is cleared
insertRung(g, i) ==
  LET g0 == IF i > 0 THEN clearEdges(g, i - 1) ELSE g
  IN  SubSeq(g0, 1, i) \o <<EmptyRung>> \o SubSeq(g0, i + 1, Len(g0))

\* delete rung i; when it was interior the edge structure out of rung i-1 is
\* cleared
removeRung(g, i) ==
  LET g0 == IF i > 0 /\ i + 1 < Len(g) THEN clearEdges(g, i - 1) ELSE g
  IN  SubSeq(g0, 1, i) \o SubSeq(g0, i + 2, Len(g0))

HasId(g, id) == \E p \in 1..Len(g) : g[p].id = id

\* (position, present?) of the rung carrying id
indexOf(g, id) ==
  IF HasId(g, id)
  THEN <<(CHOOSE p \in 1..Len(g) :
            g[p].id = id /\ \A q \in 1..(p - 1) : g[q].id # id) - 1, TRUE>>
  ELSE <<0, FALSE>>


(*************************************************************************)
(* Edge Builder                                                          *)
(*************************************************************************)
RECURSIVE L1Distance(_, _, _)
\* the default cost: sum over k < dof of |a[k] - b[k]|
L1Distance(a, b, k) ==
  IF k = 0 THEN 0 ELSE L1Distance(a, b, k - 1) + Abs(a[k] - b[k])

EdgeCost(cf, a, b, dof) == IF cf # "none" THEN UserCost(a, b) ELSE L1Distance(a, b, dof)

RECURSIVE EdgeScan_IndexFromOne(_, _, _, _, _, _, _, _, _)
\* EdgeScan that stores the destination index after incrementing it
\* ({cost, ++idx}): destinations are numbered from 1
EdgeScan_IndexFromOne(cf, start_joints, end_joints, dof, tm, i, j, idx, scratch) ==
  IF j >= Len(end_joints) THEN scratch
  ELSE LET a == SubSeq(start_joints, i + 1, i + dof)
           b == SubSeq(end_joints, j + 1, j + dof)
       IN  IF tm.specified /\ ~isValidMove(a, b, tm.upper)
           THEN EdgeScan_IndexFromOne(cf, start_joints, end_joints, dof, tm, i,
                                      j + dof, idx + 1, scratch)
           ELSE EdgeScan_IndexFromOne(cf, start_joints, end_joints, dof, tm, i,
                                      j + dof, idx + 1,
                                      Append(scratch, [cost |-> EdgeCost(cf, a, b, dof),
                                                       idx |-> idx + 1]))

RECURSIVE EdgeScan_AlwaysChecks(_, _, _, _, _, _, _, _, _)
\* EdgeScan that consults isValidMove whether or not the timing is specified
EdgeScan_AlwaysChecks(cf, start_joints, end_joints, dof, tm, i, j, idx, scratch) ==
  IF j >= Len(end_joints) THEN scratch
  ELSE LET a == SubSeq(start_joints, i + 1, i + dof)
           b == SubSeq(end_joints, j + 1, j + dof)
       IN  IF ~isValidMove(a, b, tm.upper)
           THEN EdgeScan_AlwaysChecks(cf, start_joints, end_joints, dof, tm, i,
                                      j + dof, idx + 1, scratch)
           ELSE EdgeScan_AlwaysChecks(cf, start_joints, end_joints, dof, tm, i,
                                      j + dof, idx + 1,
                                      Append(scratch, [cost |-> EdgeCost(cf, a, b, dof),
                                                       idx |-> idx]))

RECURSIVE EdgeScan(_, _, _, _, _, _, _, _, _)
\* the loop over the to-rung for the source vertex at data offset i: j is the
\* data offset of the destination, idx its vertex index, scratch the edges
\* written so far (edge_scratch[0 .. count))
EdgeScan(cf, start_joints, end_joints, dof, tm, i, j, idx, scratch) ==
  IF j >= Len(end_joints) THEN scratch
  ELSE LET a == SubSeq(start_joints, i + 1, i + dof)
           b == SubSeq(end_joints, j + 1, j + dof)
       IN  IF tm.specified /\ ~isValidMove(a, b, tm.upper)
           THEN EdgeScan(cf, start_joints, end_joints, dof, tm, i, j + dof, idx + 1, scratch)
           ELSE EdgeScan(cf, start_joints, end_joints, dof, tm, i, j + dof, idx + 1,
                         Append(scratch, [cost |-> EdgeCost(cf, a, b, dof), idx |-> idx]))

calculateEdgeWeights(cf, start_joints, end_joints, dof, tm) ==
  LET n_start_points == Len(start_joints) \div dof
  IN  [p \in 1..n_start_points |->
         EdgeScan(cf, start_joints, end_joints, dof, tm, (p - 1) * dof, 0, 0, << >>)]

\* the edge block out of rung start_idx toward rung end_idx
computeAndAssignEdges(cf, g, start_idx, end_idx) ==
  LET joints1 == getRung(g, start_idx).data
      joints2 == getRung(g, end_idx).data
      tm      == getRung(g, end_idx).timing
  IN  assignEdges(g, start_idx, calculateEdgeWeights(cf, joints1, joints2, DOF, tm))

(*************************************************************************)
(* Joint solutions                                                       *)
(*************************************************************************)
RECURSIVE JointSolutionsFrom(_, _, _)
\* the loop of calculateJointSolutions from waypoint i on: poses holds one
\* entry per waypoint (resize(count)), filled until the first IK failure
JointSolutionsFrom(points, i, acc) ==
  IF i > Len(points) THEN [ok |-> TRUE, poses |-> acc.poses, queries |-> acc.queries]
  ELSE LET joint_poses == getJointPoses(points[i])
       IN  IF joint_poses = << >>
           THEN [ok |-> FALSE, poses |-> acc.poses, queries |-> acc.queries + 1]
           ELSE JointSolutionsFrom(points, i + 1,
                  [poses |-> [acc.poses EXCEPT ![i] = joint_poses],
                   queries |-> acc.queries + 1])

calculateJointSolutions(points) ==
  JointSolutionsFrom(points, 1,
    [poses |-> [i \in 1..Len(points) |-> << >>], queries |-> 0])

(*************************************************************************)
(* Execution of a facade call: the graph so far, the LadderGraph calls   *)
(* made, and what an out-of-range rung index (undefined behaviour) did.  *)
(* In mode "halt" the call stops at the faulting access; in mode "skip"  *)
(* the faulting access leaves the graph alone and the call goes on.      *)
(*************************************************************************)
UBModes == {"halt", "skip"}

Start(g) == [g |-> g, log |-> << >>, fault |-> FALSE, halted |-> FALSE]

Faulted(st, entry, mode) ==
  [st EXCEPT !.log = Append(@, entry), !.fault = TRUE, !.halted = (mode = "halt")]

doInsertRung(st, i, mode) ==
  IF st.halted THEN st
  ELSE IF i <= size(st.g)
       THEN [st EXCEPT !.g = insertRung(@, i), !.log = Append(@, <<"insertRung", i>>)]
       ELSE Faulted(st, <<"insertRung", i>>, mode)

doAssignRung(st, i, point, sols, mode) ==
  IF st.halted THEN st
  ELSE IF InRange(st.g, i)
       THEN [st EXCEPT !.g = assignRung(@, i, point.id, point.timing, sols),
                       !.log = Append(@, <<"assignRung", i>>)]
       ELSE Faulted(st, <<"assignRung", i>>, mode)

doComputeAndAssignEdges(cf, st, start_idx, end_idx, mode) ==
  IF st.halted THEN st
  ELSE IF InRange(st.g, start_idx) /\ InRange(st.g, end_idx)
       THEN [st EXCEPT !.g = computeAndAssignEdges(cf, @, start_idx, end_idx),
                       !.log = Append(@, <<"computeAndAssignEdges", start_idx, end_idx>>)]
       ELSE Faulted(st, <<"computeAndAssignEdges", start_idx, end_idx>>, mode)

(*************************************************************************)
(* Shortest-Path Search: one forward relaxation pass over the layers     *)
(*************************************************************************)
NoPred == -1

RECURSIVE RelaxEdges_NonStrict(_, _, _, _)
\* RelaxEdges that also takes a relaxation of equal cost (<= for <): the
\* last vertex that attains the least distance becomes the predecessor
RelaxEdges_NonStrict(next, d, v, edges) ==
  IF edges = << >> THEN next
  ELSE LET e == Head(edges)
           j == e.idx + 1
       IN  RelaxEdges_NonStrict(IF d + e.cost <= next[j].dist
                                THEN [next EXCEPT ![j] = [dist |-> d + e.cost, pred |-> v]]
                                ELSE next,
                                d, v, Tail(edges))

RECURSIVE RelaxEdges(_, _, _, _)
\* relax the edges out of vertex v (distance d) into the next rung's labels
RelaxEdges(next, d, v, edges) ==
  IF edges = << >> THEN next
  ELSE LET e == Head(edges)
           j == e.idx + 1
       IN  RelaxEdges(IF d + e.cost < next[j].dist
                      THEN [next EXCEPT ![j] = [dist |-> d + e.cost, pred |-> v]]
                      ELSE next,
                      d, v, Tail(edges))

RECURSIVE RelaxRung(_, _, _, _, _)
\* relax every vertex v, v+1, ... of rung i that has a finite distance
RelaxRung(g, i, cur, v, next) ==
  IF v >= Len(cur) THEN next
  ELSE RelaxRung(g, i, cur, v + 1,
                 IF cur[v + 1].dist < Infinity
                 THEN RelaxEdges(next, cur[v + 1].dist, v, edgesOutOf(g, i, v))
                 ELSE next)

RECURSIVE Labels(_, _)
\* distance and predecessor of every vertex of rung i
Labels(g, i) ==
  IF i = 0
  THEN [v \in 1..rungSize(g, 0) |-> [dist |-> 0, pred |-> NoPred]]
  ELSE RelaxRung(g, i - 1, Labels(g, i - 1), 0,
                 [v \in 1..rungSize(g, i) |-> [dist |-> Infinity, pred |-> NoPred]])

\* DijkstrasSearch::run: the least distance of the last rung
run(g) ==
  IF size(g) = 0 THEN Infinity
  ELSE LET lab == Labels(g, size(g) - 1)
       IN  IF \A v \in DOMAIN lab : lab[v].dist = Infinity THEN Infinity
           ELSE CHOOSE d \in {lab[v].dist : v \in DOMAIN lab} :
                  \A v \in DOMAIN lab : d <= lab[v].dist

RECURSIVE PathBack(_, _, _, _)
\* follow the predecessors from vertex v of rung i back to rung 0
PathBack(g, i, v, acc) ==
  IF i = 0 THEN <<v>> \o acc
  ELSE PathBack(g, i - 1, Labels(g, i)[v + 1].pred, <<v>> \o acc)

\* DijkstrasSearch::shortestPath: one vertex index per rung, back from the
\* lowest-indexed vertex of the last rung that attains the least distance;
\* empty when there is none
shortestPath(g) ==
  IF run(g) = Infinity THEN << >>
  ELSE LET lab  == Labels(g, size(g) - 1)
           best == CHOOSE v \in DOMAIN lab :
                     /\ lab[v].dist = run(g)
                     /\ \A w \in DOMAIN lab : lab[w].dist = run(g) => v <= w
       IN  PathBack(g, size(g) - 1, best - 1, << >>)

(*************************************************************************)
(* Planner facade: state                                                 *)
(*************************************************************************)
VARIABLES
  graph,                  \* graph_: the sequence of rungs
  custom_cost_function_,  \* the cost function given at construction
  last,                   \* the last facade call: its name, return value and locals
  out,                    \* the cost and path filled in by getShortestPath
  fault,                  \* an out-of-range rung index was used
  calls                   \* the number of facade calls made so far

vars == <<graph, custom_cost_function_, last, out, fault, calls>>

NoResult == [cost |-> 0, path_idxs |-> << >>, path |-> << >>]

\* record of a call: args its arguments, found/idx the result of the id
\* lookup, ik the outcome of calculateJointSolutions, queries the number of
\* getJointPoses calls, log the LadderGraph calls made
Call(op, args, ret, found, idx, ik, queries, log) ==
  [op |-> op, args |-> args, ret |-> ret, found |-> found, idx |-> idx, ik |-> ik,
   queries |-> queries, log |-> log]

IkOutcome(sol) == IF sol.ok THEN "ok" ELSE "failed"

\* PlanningGraph::PlanningGraph
Init ==
  /\ graph = << >>
  /\ custom_cost_function_ \in CostFunctions
  /\ last = Call("construct", << >>, TRUE, FALSE, 0, "not_run", 0, << >>)
  /\ out = NoResult
  /\ fault = FALSE
  /\ calls = 0

\* PlanningGraph::clear
clear(st) == [st EXCEPT !.g = << >>, !.log = Append(@, <<"clear">>)]

(*************************************************************************)
(* insertGraph                                                           *)
(*************************************************************************)
RECURSIVE AssignRungs_StopsOneEarly(_, _, _, _)
\* AssignRungs with the loop bound of the edge loop (points.size() - 1):
\* the last rung is never assigned
AssignRungs_StopsOneEarly(st, points, poses, i) ==
  IF i >= Len(points) - 1 THEN st
  ELSE AssignRungs_StopsOneEarly(
         doAssignRung(st, i, points[i + 1], poses[i + 1], "halt"),
         points, poses, i + 1)

RECURSIVE AssignRungs(_, _, _, _)
\* for (i = 0; i < points.size(); ++i) graph_.assignRung(i, ...)
AssignRungs(st, points, poses, i) ==
  IF i >= Len(points) THEN st
  ELSE AssignRungs(doAssignRung(st, i, points[i + 1], poses[i + 1], "halt"),
                   points, poses, i + 1)

RECURSIVE ComputeAllEdges(_, _, _)
\* for (i = 0; i < graph_.size() - 1; ++i) computeAndAssignEdges(i, i + 1)
ComputeAllEdges(cf, st, i) ==
  IF i >= (size(st.g) - 1) % SizeMod THEN st
  ELSE ComputeAllEdges(cf, doComputeAndAssignEdges(cf, st, i, i + 1, "halt"), i + 1)

\* insertGraphBody with the rungs allocated before the joint solutions are
\* checked
insertGraphBody_AllocateFirst(cf, g, points) ==
  LET st0 == IF size(g) > 0 THEN clear(Start(g)) ELSE Start(g)
      sol == calculateJointSolutions(points)
      st1 == [st0 EXCEPT !.g = allocate(Len(points)),
                         !.log = Append(@, <<"allocate", Len(points)>>)]
  IN  IF ~sol.ok
      THEN [st |-> st1, ret |-> FALSE, sol |-> sol]
      ELSE [st |-> ComputeAllEdges(cf, AssignRungs(st1, points, sol.poses, 0), 0),
            ret |-> TRUE, sol |-> sol]

\* insertGraphBody without the reset of a non-empty graph
insertGraphBody_NoClear(cf, g, points) ==
  LET st0 == Start(g)
      sol == calculateJointSolutions(points)
  IN  IF ~sol.ok
      THEN [st |-> st0, ret |-> FALSE, sol |-> sol]
      ELSE LET st1 == [st0 EXCEPT !.g = allocate(Len(points)),
                                  !.log = Append(@, <<"allocate", Len(points)>>)]
               st2 == AssignRungs(st1, points, sol.poses, 0)
           IN  [st |-> ComputeAllEdges(cf, st2, 0), ret |-> TRUE, sol |-> sol]

insertGraphBody(cf, g, points) ==
  LET st0 == IF size(g) > 0 THEN clear(Start(g)) ELSE Start(g)
      sol == calculateJointSolutions(points)
  IN  IF ~sol.ok
      THEN [st |-> st0, ret |-> FALSE, sol |-> sol]
      ELSE LET st1 == [st0 EXCEPT !.g = allocate(Len(points)),
                                  !.log = Append(@, <<"allocate", Len(points)>>)]
               st2 == AssignRungs(st1, points, sol.poses, 0)
           IN  [st |-> ComputeAllEdges(cf, st2, 0), ret |-> TRUE, sol |-> sol]

\* insertGraph accepting a single waypoint
insertGraph_OnePointEnough(points) ==
  /\ IF Len(points) < 1
     THEN /\ graph' = graph
          /\ last' = Call("insertGraph", [points |-> points], FALSE, FALSE, 0, "not_run", 0, << >>)
     ELSE \E r \in {insertGraphBody(custom_cost_function_, graph, points)} :
              /\ graph' = r.st.g
              /\ last' = Call("insertGraph", [points |-> points], r.ret, FALSE, 0,
                              IkOutcome(r.sol), r.sol.queries, r.st.log)
  /\ out' = NoResult
  /\ UNCHANGED <<custom_cost_function_, fault>>

insertGraph(points) ==
  /\ IF Len(points) < 2
     THEN /\ graph' = graph
          /\ last' = Call("insertGraph", [points |-> points], FALSE, FALSE, 0, "not_run", 0, << >>)
     ELSE \E r \in {insertGraphBody(custom_cost_function_, graph, points)} :
              /\ graph' = r.st.g
              /\ last' = Call("insertGraph", [points |-> points], r.ret, FALSE, 0,
                              IkOutcome(r.sol), r.sol.queries, r.st.log)
  /\ out' = NoResult
  /\ UNCHANGED <<custom_cost_function_, fault>>

(*************************************************************************)
(* addTrajectory                                                         *)
(*************************************************************************)
\* the ids a caller passes as previous_id and next_id
IdArgs == Ids \cup {Nil}

\* index of the new rung: the position of next_id, else size - 1
InsertIdx(g, ns) == IF ns[2] THEN ns[1] ELSE (size(g) - 1) % SizeMod

addTrajectoryBody(cf, g, point, previous_id, next_id, mode) ==
  LET ns         == indexOf(g, next_id)
      sol        == calculateJointSolutions(<<point>>)
      insert_idx == InsertIdx(g, ns)
      st1 == doInsertRung(Start(g), insert_idx, mode)
      st2 == doAssignRung(st1, insert_idx, point, sol.poses[1], mode)
      st3 == IF previous_id # Nil
             THEN doComputeAndAssignEdges(cf, st2, (insert_idx - 1) % SizeMod, insert_idx, mode)
             ELSE st2
      st4 == IF next_id # Nil
             THEN doComputeAndAssignEdges(cf, st3, insert_idx, (insert_idx + 1) % SizeMod, mode)
             ELSE st3
  IN  [st |-> st4, ns |-> ns, sol |-> sol, insert_idx |-> insert_idx]

addTrajectory(point, previous_id, next_id) ==
  /\ size(graph) < MaxRungs
  /\ \E mode \in UBModes :
       \E r \in {addTrajectoryBody(custom_cost_function_, graph, point, previous_id, next_id, mode)} :
           /\ graph' = r.st.g
           /\ fault' = r.st.fault
           /\ last' = Call("addTrajectory",
                           [point |-> point, previous_id |-> previous_id, next_id |-> next_id],
                           ~r.st.halted, r.ns[2], r.insert_idx,
                           IkOutcome(r.sol), r.sol.queries, r.st.log)
  /\ out' = NoResult
  /\ UNCHANGED custom_cost_function_

(*************************************************************************)
(* modifyTrajectory                                                      *)
(*************************************************************************)
\* modifyTrajectoryBody with the arguments of the second edge computation
\* exchanged: the block out of rung idx + 1 is the one written
modifyTrajectoryBody_SwappedNext(cf, g, point, idx) ==
  LET sol == calculateJointSolutions(<<point>>)
      st1 == [Start(g) EXCEPT !.g = clearEdges(clearVertices(@, idx), idx),
                              !.log = <<<<"clearVertices", idx>>, <<"clearEdges", idx>>>>]
      st2 == doAssignRung(st1, idx, point, sol.poses[1], "halt")
      st3 == IF ~isFirst(idx)
             THEN doComputeAndAssignEdges(cf, st2, idx - 1, idx, "halt")
             ELSE st2
      st4 == IF ~isLast(g, idx)
             THEN doComputeAndAssignEdges(cf, st3, idx + 1, idx, "halt")
             ELSE st3
  IN  [st |-> st4, sol |-> sol]

\* modifyTrajectoryBody without the clearVertices call, over a rung store
\* that appends the assigned joint data to what the rung holds
modifyTrajectoryBody_NoClearVertices(cf, g, point, idx) ==
  LET sol == calculateJointSolutions(<<point>>)
      old == getRung(g, idx).data
      st1 == [Start(g) EXCEPT !.g = clearEdges(@, idx),
                              !.log = <<<<"clearEdges", idx>>>>]
      st2 == [doAssignRung(st1, idx, point, sol.poses[1], "halt")
                EXCEPT !.g[idx + 1].data = old \o @]
      st3 == IF ~isFirst(idx)
             THEN doComputeAndAssignEdges(cf, st2, idx - 1, idx, "halt")
             ELSE st2
      st4 == IF ~isLast(g, idx)
             THEN doComputeAndAssignEdges(cf, st3, idx, idx + 1, "halt")
             ELSE st3
  IN  [st |-> st4, sol |-> sol]

modifyTrajectoryBody(cf, g, point, idx) ==
  LET sol == calculateJointSolutions(<<point>>)
      st1 == [Start(g) EXCEPT !.g = clearEdges(clearVertices(@, idx), idx),
                              !.log = <<<<"clearVertices", idx>>, <<"clearEdges", idx>>>>]
      st2 == doAssignRung(st1, idx, point, sol.poses[1], "halt")
      st3 == IF ~isFirst(idx)
             THEN doComputeAndAssignEdges(cf, st2, idx - 1, idx, "halt")
             ELSE st2
      st4 == IF ~isLast(g, idx)
             THEN doComputeAndAssignEdges(cf, st3, idx, idx + 1, "halt")
             ELSE st3
  IN  [st |-> st4, sol |-> sol]

modifyTrajectory(point) ==
  /\ LET s == indexOf(graph, point.id)
     IN  IF ~s[2]
         THEN /\ graph' = graph
              /\ last' = Call("modifyTrajectory", [point |-> point], FALSE, FALSE, s[1], "not_run", 0, << >>)
         ELSE \E r \in {modifyTrajectoryBody(custom_cost_function_, graph, point, s[1])} :
                  /\ graph' = r.st.g
                  /\ last' = Call("modifyTrajectory", [point |-> point], TRUE, TRUE, s[1],
                                  IkOutcome(r.sol), r.sol.queries, r.st.log)
  /\ out' = NoResult
  /\ UNCHANGED <<custom_cost_function_, fault>>

(*************************************************************************)
(* removeTrajectory                                                      *)
(*************************************************************************)
\* removeTrajectoryBody that never takes the in_middle branch: the edges
\* across the gap are not rebuilt
removeTrajectoryBody_NoRecompute(cf, g, idx) ==
  [Start(g) EXCEPT !.g = removeRung(@, idx), !.log = <<<<"removeRung", idx>>>>]

removeTrajectoryBody(cf, g, idx) ==
  LET in_middle == ~isFirst(idx) /\ ~isLast(g, idx)
      st1 == [Start(g) EXCEPT !.g = removeRung(@, idx), !.log = <<<<"removeRung", idx>>>>]
  IN  IF in_middle
      THEN doComputeAndAssignEdges(cf, st1, idx - 1, idx, "halt")
      ELSE st1

\* removeTrajectory without the test of the lookup result
removeTrajectory_NoLookupCheck(point) ==
  /\ LET s == indexOf(graph, point.id)
     IN  \E st \in {removeTrajectoryBody(custom_cost_function_, graph, s[1])} :
           /\ graph' = st.g
           /\ last' = Call("removeTrajectory", [point |-> point], TRUE, s[2], s[1], "not_run", 0, st.log)
  /\ out' = NoResult
  /\ UNCHANGED <<custom_cost_function_, fault>>

removeTrajectory(point) ==
  /\ LET s == indexOf(graph, point.id)
     IN  IF ~s[2]
         THEN /\ graph' = graph
              /\ last' = Call("removeTrajectory", [point |-> point], FALSE, FALSE, s[1], "not_run", 0, << >>)
         ELSE \E st \in {removeTrajectoryBody(custom_cost_function_, graph, s[1])} :
                  /\ graph' = st.g
                  /\ last' = Call("removeTrajectory", [point |-> point], TRUE, TRUE, s[1], "not_run", 0, st.log)
  /\ out' = NoResult
  /\ UNCHANGED <<custom_cost_function_, fault>>

(*************************************************************************)
(* getShortestPath                                                       *)
(*************************************************************************)
\* the cost, the vertex indices and the JointTrajectoryPt list handed back
\* ShortestPathResult with the cost of a found path left at the caller's zero
ShortestPathResult_CostUnset(g) ==
  LET path_idxs == shortestPath(g)
  IN  [cost      |-> IF path_idxs = << >> THEN Infinity ELSE 0,
       path_idxs |-> path_idxs,
       path      |-> [i \in 1..Len(path_idxs) |->
                        [joints |-> vertex(g, i - 1, path_idxs[i]),
                         timing |-> getRung(g, i - 1).timing]]]

\* ShortestPathResult with every entry given the first rung's timing
ShortestPathResult_FirstTiming(g) ==
  LET min_cost  == run(g)
      path_idxs == shortestPath(g)
  IN  [cost      |-> min_cost,
       path_idxs |-> path_idxs,
       path      |-> [i \in 1..Len(path_idxs) |->
                        [joints |-> vertex(g, i - 1, path_idxs[i]),
                         timing |-> getRung(g, 0).timing]]]

ShortestPathResult(g) ==
  LET min_cost  == run(g)
      path_idxs == shortestPath(g)
  IN  [cost      |-> min_cost,
       path_idxs |-> path_idxs,
       path      |-> [i \in 1..Len(path_idxs) |->
                        [joints |-> vertex(g, i - 1, path_idxs[i]),
                         timing |-> getRung(g, i - 1).timing]]]

getShortestPath ==
  /\ out' = ShortestPathResult(graph)
  /\ last' = Call("getShortestPath", << >>, out'.cost # Infinity, FALSE, 0, "not_run", 0, << >>)
  /\ UNCHANGED <<graph, custom_cost_function_, fault>>

(*************************************************************************)
(* Specification                                                         *)
(*************************************************************************)
\* the waypoint lists handed to insertGraph: no waypoint is listed twice
\* (two waypoints of a list may still carry the same id)
PointLists ==
  {points \in UNION {[1..n -> Points] : n \in 0..MaxRungs} :
     \A i, j \in DOMAIN points : i # j => points[i] # points[j]}

\* one more facade call, while the planner is intact
Called == ~fault /\ calls < MaxCalls /\ calls' = calls + 1

Next ==
  \/ \E points \in PointLists : Called /\ insertGraph(points)
  \/ \E point \in Points, previous_id \in IdArgs, next_id \in IdArgs :
       Called /\ addTrajectory(point, previous_id, next_id)
  \/ \E point \in Points : Called /\ modifyTrajectory(point)
  \/ \E point \in Points : Called /\ removeTrajectory(point)
  \/ Called /\ getShortestPath

Spec == Init /\ [][Next]_vars

(*************************************************************************)
(* A planner that is given one trajectory, of waypoints with distinct     *)
(* ids, and is then asked for paths and to remove waypoints               *)
(*************************************************************************)
\* Waypoints with distinct ids; the first three are the rungs [0, 10], [5],
\* [0, 10] of a one-joint robot, held with a second joint that stays at 0.
LadderPoints ==
  { [id |-> 4, timing |-> Unspecified, poses |-> << <<0, 0>>, <<10, 0>> >>],
    [id |-> 5, timing |-> Unspecified, poses |-> << <<5, 0>> >>],
    [id |-> 6, timing |-> Unspecified, poses |-> << <<0, 0>>, <<10, 0>> >>],
    [id |-> 7, timing |-> Within(5),   poses |-> << <<5, 5>>, <<0, 0>> >>],
    [id |-> 8, timing |-> Within(6),   poses |-> << <<4, 1>>, <<10, 5>>, <<5, 0>> >>] }

\* the trajectories handed to insertGraph: no waypoint twice
BuiltLists ==
  {points \in UNION {[1..n -> LadderPoints] : n \in 2..(MaxRungs + 1)} :
     \A i, j \in DOMAIN points : i # j => points[i] # points[j]}

NextBuilt ==
  \/ \E points \in BuiltLists : calls = 0 /\ Called /\ insertGraph(points)
  \/ \E point \in LadderPoints : Called /\ removeTrajectory(point)
  \/ Called /\ getShortestPath

SpecBuilt == Init /\ [][NextBuilt]_vars

(*************************************************************************)
(* Properties                                                            *)
(*************************************************************************)
\* what the Edge Builder produces for the pair (i, i+1) of g
BuiltEdges(cf, g, i) ==
  calculateEdgeWeights(cf, getRung(g, i).data, getRung(g, i + 1).data, DOF,
                       getRung(g, i + 1).timing)

\* a rung without its edge block
RungData(r) == [id |-> r.id, timing |-> r.timing, data |-> r.data]

\* C1: after any sequence of successful facade operations the stored edge
\* block out of every rung i that has a successor is exactly what the Edge
\* Builder produces from the current joint data of rungs i and i+1 and the
\* current timing of rung i+1.  (A failed call leaves the graph as it was or
\* empty, so every graph reached at all is reached by successful calls.)
C1_EdgesCurrent ==
  ~fault =>
    \A i \in 0..(size(graph) - 2) :
      getRung(graph, i).edges = BuiltEdges(custom_cost_function_, graph, i)

\* C2: a defined addTrajectory call whose next_id is carried by no rung
\* appends: the graph grows from n to n+1 rungs, the new point's rung is at
\* position n, and the former rungs keep positions 0..n-1 in their order.
C2_AppendsAtTail ==
  [][(last'.op = "addTrajectory" /\ ~fault' /\ ~HasId(graph, last'.args.next_id)) =>
       /\ size(graph') = size(graph) + 1
       /\ RungData(getRung(graph', size(graph))) =
            [id     |-> last'.args.point.id,
             timing |-> last'.args.point.timing,
             data   |-> Flatten(getJointPoses(last'.args.point))]
       /\ \A i \in 0..(size(graph) - 1) :
            RungData(getRung(graph', i)) = RungData(getRung(graph, i))]_vars

\* the LadderGraph calls of the last facade call
Logged == {last.log[k] : k \in DOMAIN last.log}

\* its computeAndAssignEdges calls
EdgeCalls == {c \in Logged : c[1] = "computeAndAssignEdges"}

\* C3: once addTrajectory has placed the new rung at position p, the edges
\* from rung p-1 into rung p are recomputed whenever a rung exists at p-1, the
\* edges from rung p into rung p+1 whenever a rung exists at p+1, and no
\* recomputation is attempted toward a rung that does not exist.
C3_AddRecomputesNeighbours ==
  (last.op = "addTrajectory" /\ <<"insertRung", last.idx>> \in Logged
     /\ InRange(graph, last.idx)) =>
    LET p == last.idx
    IN  /\ p >= 1 =>
             /\ <<"computeAndAssignEdges", p - 1, p>> \in EdgeCalls
             /\ getRung(graph, p - 1).edges = BuiltEdges(custom_cost_function_, graph, p - 1)
        /\ p + 1 < size(graph) =>
             /\ <<"computeAndAssignEdges", p, p + 1>> \in EdgeCalls
             /\ getRung(graph, p).edges = BuiltEdges(custom_cost_function_, graph, p)
        /\ \A c \in EdgeCalls : InRange(graph, c[2]) /\ InRange(graph, c[3])

(*************************************************************************)
(* Paths of a graph, enumerated independently of the search              *)
(*************************************************************************)
\* the stored edges from vertex v of rung i to vertex w of rung i+1
StoredEdges(g, i, v, w) ==
  LET el == edgesOutOf(g, i, v)
  IN  {el[k] : k \in {k \in DOMAIN el : el[k].idx = w}}

MostVertices(g) ==
  IF g = << >> THEN 0
  ELSE CHOOSE m \in {rungSize(g, i) : i \in 0..(size(g) - 1)} :
         \A i \in 0..(size(g) - 1) : rungSize(g, i) <= m

\* one vertex per rung, consecutive vertices joined by a stored edge
Paths(g) ==
  {f \in [1..size(g) -> 0..(MostVertices(g) - 1)] :
     /\ \A i \in 1..size(g) : f[i] < rungSize(g, i - 1)
     /\ \A i \in 1..(size(g) - 1) : StoredEdges(g, i - 1, f[i], f[i + 1]) # {}}

Feasible(g) == size(g) >= 1 /\ Paths(g) # {}

RECURSIVE PathCost(_, _, _)
\* the sum of the edge costs along the first i vertices of f
PathCost(g, f, i) ==
  IF i <= 1 THEN 0
  ELSE PathCost(g, f, i - 1) +
       (CHOOSE e \in StoredEdges(g, i - 2, f[i - 1], f[i]) : TRUE).cost

\* C4: on a graph in which a path exists, getShortestPath returns a path
\* whose consecutive vertices are joined by stored edges, the returned cost is
\* the sum of the costs of those edges, and no path of the graph costs less.
C4_ShortestPathOptimal ==
  (last.op = "getShortestPath" /\ Feasible(graph)) =>
    /\ out.path_idxs \in Paths(graph)
    /\ out.cost = PathCost(graph, out.path_idxs, size(graph))
    /\ \A f \in Paths(graph) : out.cost <= PathCost(graph, f, size(graph))

C4_Witness ==
  /\ last.op = "getShortestPath"
  /\ size(graph) >= 3
  /\ out.cost > 0
  /\ \E f \in Paths(graph) : PathCost(graph, f, size(graph)) > out.cost

\* C5: getShortestPath returns one joint configuration per rung, entry i a
\* vertex of rung i with rung i's timing, when a feasible path exists; when
\* none exists it returns cost = +infinity, an empty path and failure.
C5_PathShape ==
  last.op = "getShortestPath" =>
    IF Feasible(graph)
    THEN /\ Len(out.path) = size(graph)
         /\ \A i \in 1..Len(out.path) :
              /\ \E v \in 0..(rungSize(graph, i - 1) - 1) :
                   out.path[i].joints = vertex(graph, i - 1, v)
              /\ out.path[i].timing = getRung(graph, i - 1).timing
    ELSE /\ out.cost = Infinity
         /\ out.path = << >>
         /\ last.ret = FALSE

\* infeasible although every rung has vertices and every edge block is built:
\* the timing of some rung forbids every move into it
C5_Witness ==
  /\ last.op = "getShortestPath"
  /\ ~last.ret
  /\ size(graph) >= 2
  /\ \A i \in 0..(size(graph) - 1) : rungSize(graph, i) >= 1
  /\ \A i \in 0..(size(graph) - 2) : Len(getRung(graph, i).edges) = rungSize(graph, i)

(*************************************************************************)
(* Failure behaviour of the facade                                       *)
(*************************************************************************)
IkFails(point) == getJointPoses(point) = << >>

\* a list of at least two waypoints with an IK failure among them
IkFailingList(points) ==
  Len(points) >= 2 /\ \E i \in DOMAIN points : IkFails(points[i])

\* C6: modifyTrajectory and removeTrajectory called with a point whose id is
\* carried by no rung return failure and leave rung count, every rung's id,
\* timing and joint data and every edge list as they were.
C6_NotFoundUntouched ==
  [][(last'.op \in {"modifyTrajectory", "removeTrajectory"}
        /\ ~HasId(graph, last'.args.point.id)) =>
       graph' = graph /\ last'.ret = FALSE]_vars

C6_Witness ==
  /\ last.op \in {"modifyTrajectory", "removeTrajectory"}
  /\ ~HasId(graph, last.args.point.id)
  /\ ~last.ret
  /\ size(graph) >= 2

\* C7: a defined addTrajectory or modifyTrajectory call with a waypoint for
\* which the oracle returns no joint configuration returns failure and leaves
\* the graph (rungs and edges) as it was; no rung without vertices is
\* installed.
C7_IkFailureAtomic ==
  [][(last'.op \in {"addTrajectory", "modifyTrajectory"} /\ ~fault'
        /\ IkFails(last'.args.point)) =>
       graph' = graph /\ last'.ret = FALSE]_vars

\* C8: an insertGraph call that meets an IK failure leaves the graph equal to
\* the graph before the call, whatever that graph was.
C8_FailedInsertChangesNothing ==
  [][(last'.op = "insertGraph" /\ IkFailingList(last'.args.points)) =>
       graph' = graph]_vars

\* C8 as amended: an insertGraph call that meets an IK failure installs
\* nothing of the new waypoints; the graph after the call equals the graph
\* before it when that graph was empty, and a non-empty graph is left reset to
\* the empty graph.
C8_FailedInsertCommitsNothing ==
  [][(last'.op = "insertGraph" /\ IkFailingList(last'.args.points)) =>
       graph' = (IF size(graph) = 0 THEN graph ELSE << >>)]_vars

\* the failed call found a graph to reset
C8_Witness ==
  /\ last.op = "insertGraph"
  /\ IkFailingList(last.args.points)
  /\ <<"clear">> \in Logged
  /\ ~last.ret

\* C9: an insertGraph call with an IK failure on any of its waypoints returns
\* failure and leaves the graph empty (no rung, no edge block), whatever the
\* graph was; allocate and assignRung are not reached.
C9_FailedInsertLeavesEmpty ==
  (last.op = "insertGraph" /\ IkFailingList(last.args.points)) =>
    /\ last.ret = FALSE
    /\ size(graph) = 0
    /\ \A c \in Logged : c[1] \notin {"allocate", "assignRung"}

\* the failure was met after the oracle had answered for an earlier waypoint
C9_Witness ==
  /\ last.op = "insertGraph"
  /\ IkFailingList(last.args.points)
  /\ ~IkFails(last.args.points[1])
  /\ last.queries >= 2
  /\ size(graph) = 0

\* C10: insertGraph called with fewer than 2 waypoints returns failure without
\* consulting the oracle and leaves the graph exactly as it was.
C10_TooFewPoints ==
  [][(last'.op = "insertGraph" /\ Len(last'.args.points) < 2) =>
       /\ last'.ret = FALSE
       /\ last'.queries = 0
       /\ graph' = graph]_vars

C10_Witness ==
  /\ last.op = "insertGraph"
  /\ Len(last.args.points) = 1
  /\ ~last.ret
  /\ size(graph) >= 2

\* C11: after a successful insertGraph(points), whatever the graph held
\* before, the graph has exactly as many rungs as points has waypoints (at
\* least 2); rung i carries the id and the timing of points[i] and the joint
\* configurations the oracle gives for points[i], in the order it gives them;
\* the edge blocks are those built between the new rungs and the last rung
\* has none, so nothing of the previous graph remains.
C11_InsertGraphReplaces ==
  (last.op = "insertGraph" /\ last.ret) =>
    LET points == last.args.points
    IN  /\ Len(points) >= 2
        /\ size(graph) = Len(points)
        /\ \A i \in 0..(Len(points) - 1) :
             /\ RungData(getRung(graph, i)) =
                  [id     |-> points[i + 1].id,
                   timing |-> points[i + 1].timing,
                   data   |-> Flatten(getJointPoses(points[i + 1]))]
             /\ getRung(graph, i).edges =
                  IF i < Len(points) - 1
                  THEN BuiltEdges(custom_cost_function_, graph, i)
                  ELSE << >>

\* a successful insertGraph of three waypoints over a graph that held rungs
C11_Witness ==
  /\ last.op = "insertGraph" /\ last.ret
  /\ <<"clear">> \in Logged
  /\ size(graph) = 3

\* C12: after any sequence of facade mutations, indexOf of the id of the rung
\* at position p answers (p, present) for every rung of the graph, and indexOf
\* of an id that no rung carries answers not present; sequences that hand
\* addTrajectory or insertGraph a waypoint whose id a rung already carries
\* are included.
C12_IndexOfConsistent ==
  ~fault =>
    /\ \A p \in 0..(size(graph) - 1) :
         indexOf(graph, getRung(graph, p).id) = <<p, TRUE>>
    /\ \A d \in Ids : ~HasId(graph, d) => ~indexOf(graph, d)[2]

\* C13: a successful modifyTrajectory on the rung at position i changes only
\* the timing and the joint data of rung i and the edge blocks out of rung
\* i-1 and out of rung i; the rung count, the id and the position of rung i,
\* the id, timing and joint data of every other rung and every other edge
\* block are as before the call.
C13_ModifyIsLocal ==
  [][(last'.op = "modifyTrajectory" /\ last'.ret) =>
       LET i == last'.idx
       IN  /\ size(graph') = size(graph)
           /\ InRange(graph, i)
           /\ getRung(graph, i).id = last'.args.point.id
           /\ getRung(graph', i).id = getRung(graph, i).id
           /\ \A j \in 0..(size(graph) - 1) :
                /\ j # i => RungData(getRung(graph', j)) = RungData(getRung(graph, j))
                /\ j \notin {i - 1, i} =>
                     getRung(graph', j).edges = getRung(graph, j).edges]_vars

\* a successful modifyTrajectory of the middle rung of three, whose new joint
\* data and edge blocks on both sides are in place
C13_Witness ==
  /\ last.op = "modifyTrajectory" /\ last.ret
  /\ size(graph) = 3 /\ last.idx = 1
  /\ <<"computeAndAssignEdges", 0, 1>> \in Logged
  /\ <<"computeAndAssignEdges", 1, 2>> \in Logged
  /\ getRung(graph, 1).data = Flatten(getJointPoses(last.args.point))
  /\ getRung(graph, 2).edges = << >>

\* C15: modifyTrajectory is idempotent: a successful modifyTrajectory(p)
\* applied to the graph that a successful modifyTrajectory(p) has just
\* produced leaves the graph as it is (the oracle answers the same both
\* times).
C15_ModifyIdempotent ==
  [][(/\ last.op = "modifyTrajectory" /\ last.ret
      /\ last'.op = "modifyTrajectory" /\ last'.ret
      /\ last'.args.point = last.args.point) =>
       graph' = graph]_vars

\* a successful modifyTrajectory as the third call, on a middle rung that
\* holds the joint data (none) of the waypoint it was modified to: a state
\* that a second modifyTrajectory of that waypoint leaves
C15_Witness ==
  /\ last.op = "modifyTrajectory" /\ last.ret
  /\ calls = 3 /\ size(graph) = 3 /\ last.idx = 1
  /\ getRung(graph, 1).data = << >>
  /\ getRung(graph, 1).id = 2

\* the waypoints of LadderPoints that the rungs of g carry, in rung order
WaypointsOf(g) ==
  [i \in 1..Len(g) |-> CHOOSE point \in LadderPoints : point.id = g[i].id]

\* the graph a fresh insertGraph(points) builds
FreshGraph(cf, points) == insertGraphBody(cf, << >>, points).st.g

\* g is what insertGraph builds from the waypoints its rungs carry
IsFresh(cf, g) ==
  /\ size(g) >= 2
  /\ \A i \in 1..Len(g) : \E point \in LadderPoints : point.id = g[i].id
  /\ g = FreshGraph(cf, WaypointsOf(g))

\* points without its i-th waypoint (i from 1)
Without(points, i) == SubSeq(points, 1, i - 1) \o SubSeq(points, i + 1, Len(points))

\* C14: on a graph built by insertGraph, removeTrajectory of an interior
\* waypoint succeeds, makes size() drop by exactly 1 and leaves the graph
\* (rungs, ids, timings, joint data, edge blocks) that a fresh insertGraph
\* builds from the remaining waypoints.  Removing the interior waypoints one
\* by one, in any order, therefore passes only through such graphs and ends
\* in the graph a fresh insertGraph builds from the two endpoints.
C14_RemoveInteriorRoundTrip ==
  [][(/\ IsFresh(custom_cost_function_, graph)
      /\ last'.op = "removeTrajectory"
      /\ \E i \in 1..(size(graph) - 2) :
           getRung(graph, i).id = last'.args.point.id) =>
       LET i == CHOOSE i \in 1..(size(graph) - 2) :
                  getRung(graph, i).id = last'.args.point.id
       IN  /\ last'.ret
           /\ size(graph') = size(graph) - 1
           /\ graph' = FreshGraph(custom_cost_function_,
                                  Without(WaypointsOf(graph), i + 1))]_vars

\* two rungs are left by the removal of an interior waypoint, made as the
\* third call, with the single edge block a fresh insertGraph builds between
\* them
C14_Witness ==
  /\ last.op = "removeTrajectory" /\ last.ret
  /\ calls = 3 /\ size(graph) = 2
  /\ <<"computeAndAssignEdges", 0, 1>> \in Logged
  /\ IsFresh(custom_cost_function_, graph)

\* the edges stored out of the vertices of rung i of g
EdgesOutOfRung(g, i) ==
  UNION {{edgesOutOf(g, i, v)[k] : k \in DOMAIN edgesOutOf(g, i, v)} :
           v \in 0..(Len(getRung(g, i).edges) - 1)}

\* C16: after any sequence of facade operations, every stored edge out of a
\* vertex of a rung i that has a successor has its to_index in
\* [0, N_{i+1}), N_{i+1} being the number of vertices rung i+1 holds now;
\* this holds as well after the successor was replaced by a rung of fewer
\* vertices, after a rung was removed and after a rung was inserted.
C16_EdgeTargetsInRange ==
  ~fault =>
    \A i \in 0..(size(graph) - 2) :
      \A e \in EdgesOutOfRung(graph, i) :
        0 <= e.idx /\ e.idx < rungSize(graph, i + 1)

\* after a rung was removed, replaced or inserted, a rung holds an edge to
\* the last vertex of a successor of two or more vertices
C16_Witness ==
  /\ ~fault
  /\ last.op \in {"removeTrajectory", "modifyTrajectory", "addTrajectory"}
  /\ last.ret
  /\ \E i \in 0..(size(graph) - 2) :
       /\ rungSize(graph, i + 1) >= 2
       /\ \E e \in EdgesOutOfRung(graph, i) : e.idx = rungSize(graph, i + 1) - 1

RECURSIVE SumOver(_, _)
\* the sum of f[k] over the k in S
SumOver(f, S) ==
  IF S = {} THEN 0
  ELSE LET k == CHOOSE k \in S : TRUE IN f[k] + SumOver(f, S \ {k})

\* the L1 distance of two joint configurations
L1Norm(a, b) == SumOver([k \in 1..DOF |-> Abs(a[k] - b[k])], 1..DOF)

\* the block stored out of rung s is the Edge Builder's answer for the joint
\* data of rungs s and e and the timing tm of rung e, as C17 describes it
EdgeBlockAsClaimed(cf, g, s, e) ==
  LET block == getRung(g, s).edges
      tm    == getRung(g, e).timing
  IN  /\ Len(block) = rungSize(g, s)
      /\ \A i \in 0..(rungSize(g, s) - 1) :
           LET list == block[i + 1]
           IN  /\ \A j \in 0..(rungSize(g, e) - 1) :
                    LET hits == {k \in DOMAIN list : list[k].idx = j}
                        a    == vertex(g, s, i)
                        b    == vertex(g, e, j)
                    IN  /\ (hits # {}) <=>
                             (~tm.specified \/ isValidMove(a, b, tm.upper))
                        /\ \A k \in hits :
                             list[k].cost = IF cf = "user" THEN UserCost(a, b)
                                            ELSE L1Norm(a, b)
               /\ \A k \in DOMAIN list : list[k].idx \in 0..(rungSize(g, e) - 1)
               /\ \A k \in 1..(Len(list) - 1) : list[k].idx < list[k + 1].idx

PathsTo(g, i, v) ==
  {f \in [1..(i + 1) -> 0..(MostVertices(g) - 1)] :
     /\ f[i + 1] = v
     /\ \A k \in 1..(i + 1) : f[k] < rungSize(g, k - 1)
     /\ \A k \in 1..i : StoredEdges(g, k - 1, f[k], f[k + 1]) # {}}

\* the least cost of reaching vertex v of rung i from rung 0
DistTo(g, i, v) ==
  LET costs == {PathCost(g, f, i + 1) : f \in PathsTo(g, i, v)}
  IN  IF costs = {} THEN Infinity
      ELSE CHOOSE d \in costs : \A c \in costs : d <= c

\* the vertices u of rung i - 1 through which vertex v of rung i is reached
\* at its least cost
BestPreds(g, i, v) ==
  {u \in 0..(rungSize(g, i - 1) - 1) :
     /\ DistTo(g, i - 1, u) < Infinity
     /\ \E e \in StoredEdges(g, i - 1, u, v) :
          DistTo(g, i - 1, u) + e.cost = DistTo(g, i, v)}

Lowest(S) == CHOOSE u \in S : \A w \in S : u <= w

\* the rungs [0, 10], [5], [0, 10] (second joint at 0), no timing, no
\* registered cost function
TieLadder(cf, g) ==
  /\ cf = "none" /\ size(g) = 3
  /\ \A i \in 0..2 : ~getRung(g, i).timing.specified
  /\ getRung(g, 0).data = <<0, 0, 10, 0>>
  /\ getRung(g, 1).data = <<5, 0>>
  /\ getRung(g, 2).data = <<0, 0, 10, 0>>

\* C18: the path getShortestPath returns is determined and ties go to the
\* lowest vertex index: its final vertex is the lowest-indexed vertex of the
\* last rung that attains the least distance, and each earlier vertex is the
\* lowest-indexed vertex of its rung through which the next vertex of the
\* path is reached at its least distance (a later relaxation of equal cost
\* does not replace it).  On the ladder [0, 10], [5], [0, 10] without timing
\* the result is cost 10 with the path [0], [5], [0].
C18_TiesToLowestIndex ==
  (last.op = "getShortestPath" /\ Feasible(graph)) =>
    LET n == size(graph)
        p == out.path_idxs
    IN  /\ Len(p) = n
        /\ p[n] = Lowest({v \in 0..(rungSize(graph, n - 1) - 1) :
                            DistTo(graph, n - 1, v) = out.cost})
        /\ \A v \in 0..(rungSize(graph, n - 1) - 1) :
             out.cost <= DistTo(graph, n - 1, v)
        /\ \A i \in 1..(n - 1) : p[i] = Lowest(BestPreds(graph, i, p[i + 1]))
        /\ TieLadder(custom_cost_function_, graph) =>
             /\ last.ret
             /\ out.cost = 10
             /\ [i \in 1..3 |-> out.path[i].joints] = << <<0, 0>>, <<5, 0>>, <<0, 0>> >>

\* getShortestPath has answered on the ladder [0, 10], [5], [0, 10], where
\* four paths cost 10
C18_Witness ==
  /\ last.op = "getShortestPath"
  /\ TieLadder(custom_cost_function_, graph)
  /\ Cardinality({f \in Paths(graph) : PathCost(graph, f, 3) = out.cost}) = 4

\* the rung indices a logged container call carries
IndicesOf(c) ==
  IF c[1] \in {"insertRung", "assignRung", "clearVertices", "clearEdges", "removeRung"}
  THEN {c[2]}
  ELSE IF c[1] = "computeAndAssignEdges" THEN {c[2], c[3]} ELSE {}

\* C19: in every reachable state and for every combination of arguments of
\* addTrajectory, modifyTrajectory and removeTrajectory (addTrajectory on an
\* empty graph, a non-nil previous_id when the new rung lands at position 0
\* and a non-nil next_id that no rung carries included), every rung index
\* handed to insertRung, assignRung and the edge computation lies within the
\* graph, no size() - 1 or idx - 1 wraps around, and every block assigned
\* has as many edge lists as its source rung has vertices.
C19_IndicesWithinGraph ==
  /\ ~fault
  /\ \A c \in Logged : \A i \in IndicesOf(c) : i < SizeMod \div 2
  /\ \A c \in EdgeCalls :
       (InRange(graph, c[2]) /\ InRange(graph, c[3])) =>
         Len(getRung(graph, c[2]).edges) = rungSize(graph, c[2])

\* the rungs of g that hold an edge block
RungsWithEdges(g) == {i \in 0..(size(g) - 1) : getRung(g, i).edges # << >>}

\* one edge block less than rungs, or neither rungs nor blocks, and none out
\* of the last rung
EdgeBlocksMatchRungs(g) ==
  /\ Cardinality(RungsWithEdges(g)) = IF size(g) = 0 THEN 0 ELSE size(g) - 1
  /\ size(g) > 0 => getRung(g, size(g) - 1).edges = << >>

\* C20: when removeTrajectory removes the first or the last rung of a graph
\* whose edge blocks match its rungs, they still match afterwards: the
\* number of non-empty edge blocks is the rung count minus 1 (or both are
\* zero), the new last rung holds no edges left over that address the
\* removed rung, and every edge block between remaining rungs is unchanged.
C20_EndRemovalKeepsStructure ==
  [][(/\ last'.op = "removeTrajectory" /\ last'.ret
      /\ EdgeBlocksMatchRungs(graph)
      /\ last'.idx \in {0, size(graph) - 1}) =>
       LET shift == IF last'.idx = 0 THEN 1 ELSE 0
       IN  /\ size(graph') = size(graph) - 1
           /\ EdgeBlocksMatchRungs(graph')
           /\ \A j \in 0..(size(graph') - 2) :
                getRung(graph', j).edges = getRung(graph, j + shift).edges]_vars

=============================================================================
